---- MODULE Spec2Model ----
(***************************************************************************)
(* A model of scripts/json_qa_to_verl_sft_parquet.py: the item reader      *)
(* (iter_items), the row mapper (make_row) and the batching columnar       *)
(* writer (write_parquet).                                                 *)
(*                                                                         *)
(* An input file is a sequence of lexical tokens.  A token stands for one  *)
(* piece of text: a bracket, a comma, a space, a line feed, the text of a  *)
(* JSON object (carrying the mapping it decodes to), the text of a JSON    *)
(* number, or a piece of text that is not JSON.                            *)
(***************************************************************************)
EXTENDS Integers, Sequences, FiniteSets, TLC

\* ------------------------------------------------------------------ bounds
\* Longest input, in items.
MaxItems == 4
\* Largest batch_size tried (the smallest is -1).
MaxBatch == 2
\* Most blank lines put in one gap of a line-delimited file.
MaxBlank == 2
\* Longest record list of the reader comparison.
MaxRecs == 3

\* ------------------------------------------------------------ Python values
PyNone == [ty |-> "NoneType", s |-> ""]
PyStr(x) == [ty |-> "str", s |-> x]
PyInt(x) == [ty |-> "int", s |-> x]

\* A dict is a function from its keys to values.
EmptyDict == [key \in {} |-> PyNone]
\* dict.get(key): the value, or None when the key is absent.
Get(d, key) == IF key \in DOMAIN d THEN d[key] ELSE PyNone
IsStr(v) == v.ty = "str"
\* Truthiness of an Optional[str]: None and "" are false.
Truthy(v) == v.ty = "str" /\ v.s # ""

\* The designated field names (the command line's defaults).
InputKey == "question"
OutputKey == "response"

\* ------------------------------------------------------------- exceptions
NoExc == ""
KeyError_Missing == "KeyError: Missing keys"
TypeError_Strings == "TypeError: Expected strings"
ValueError_Format == "ValueError: Unknown out_format"
ValueError_NotDict == "ValueError: Expected dict items"
JSONDecodeError == "JSONDecodeError"
EncodeError == "ArrowError: from_pylist"
OpenError == "OSError: ParquetWriter"
WriteError == "OSError: write_table"

\* ---------------------------------------------------------------- make_row
NoRow == [norow |-> TRUE]
Raise(e) == [exc |-> e, row |-> NoRow]
Return(r) == [exc |-> NoExc, row |-> r]
Message(role, content) == [role |-> role, content |-> content]

\* The presence check of make_row: a designated field is absent or null.
Missing(q, a) == q = PyNone \/ a = PyNone

\* The type check of make_row.
NotStrings(q, a) == ~IsStr(q) \/ ~IsStr(a)

\* The messages list of make_row.
\* (A slip: the user and assistant contents exchanged.)
MessagesMutSwap(q, a, system_prompt) ==
    (IF Truthy(system_prompt)
       THEN << Message("system", system_prompt.s) >> ELSE << >>)
    \o << Message("user", a.s), Message("assistant", q.s) >>
Messages(q, a, system_prompt) ==
    (IF Truthy(system_prompt)
       THEN << Message("system", system_prompt.s) >> ELSE << >>)
    \o << Message("user", q.s), Message("assistant", a.s) >>

\* (Slips: the format looked at before the fields; the type check before
\* the presence check.)
make_rowMutFormatFirst(item, out_format, system_prompt) ==
    LET q == Get(item, InputKey)
        a == Get(item, OutputKey)
    IN  IF out_format \notin {"single_turn", "messages"} THEN Raise(ValueError_Format)
        ELSE IF Missing(q, a) THEN Raise(KeyError_Missing)
        ELSE IF NotStrings(q, a) THEN Raise(TypeError_Strings)
        ELSE IF out_format = "single_turn"
          THEN Return([question |-> q.s, answer |-> a.s])
        ELSE Return([messages |-> Messages(q, a, system_prompt)])
make_rowMutTypeFirst(item, out_format, system_prompt) ==
    LET q == Get(item, InputKey)
        a == Get(item, OutputKey)
    IN  IF (q # PyNone /\ ~IsStr(q)) \/ (a # PyNone /\ ~IsStr(a))
          THEN Raise(TypeError_Strings)
        ELSE IF Missing(q, a) THEN Raise(KeyError_Missing)
        ELSE IF out_format = "single_turn"
          THEN Return([question |-> q.s, answer |-> a.s])
        ELSE IF out_format = "messages"
          THEN Return([messages |-> Messages(q, a, system_prompt)])
        ELSE Raise(ValueError_Format)
make_row(item, out_format, system_prompt) ==
    LET q == Get(item, InputKey)
        a == Get(item, OutputKey)
    IN  IF Missing(q, a) THEN Raise(KeyError_Missing)
        ELSE IF NotStrings(q, a) THEN Raise(TypeError_Strings)
        ELSE IF out_format = "single_turn"
          THEN Return([question |-> q.s, answer |-> a.s])
        ELSE IF out_format = "messages"
          THEN Return([messages |-> Messages(q, a, system_prompt)])
        ELSE Raise(ValueError_Format)

\* ------------------------------------------------------------------ tokens
Tok(k) == [k |-> k, d |-> EmptyDict]
LBR == Tok("[")
RBR == Tok("]")
COMMA == Tok(",")
SP == Tok(" ")
LF == Tok("\n")
\* The text of a JSON number, such as 7.
NUM == Tok("num")
\* Text that is not JSON, such as {oops.
BAD == Tok("bad")
\* The one-line text of a JSON object that decodes to the dict d.
Obj(d) == [k |-> "obj", d |-> d]

\* The bytes of b" \t\r\n" (line 48), which bytes.strip() removes too.
IsWs(t) == t.k \in {" ", "\n"}

\* ------------------------------------------------------ json.load / loads
\* The first position >= i of toks that holds no whitespace (Len + 1 if none).
RECURSIVE SkipWs(_, _)
SkipWs(toks, i) ==
    IF i <= Len(toks) /\ IsWs(toks[i]) THEN SkipWs(toks, i + 1) ELSE i

\* A decoded value: its Python type and, for a dict, the mapping.
Val(ty, d) == [ty |-> ty, d |-> d]
ParseFail == [ok |-> FALSE, ty |-> "", d |-> EmptyDict, elems |-> << >>, next |-> 0]
ParseOk(ty, d, elems, next) ==
    [ok |-> TRUE, ty |-> ty, d |-> d, elems |-> elems, next |-> next]

\* The JSON value starting at position i (no leading whitespace): where it
\* ends and what it decodes to; elems are the elements of a list.
RECURSIVE ParseValue(_, _)
RECURSIVE ParseElems(_, _, _)
ParseValue(toks, i) ==
    IF i > Len(toks) THEN ParseFail
    ELSE IF toks[i].k = "obj" THEN ParseOk("dict", toks[i].d, << >>, i + 1)
    ELSE IF toks[i].k = "num" THEN ParseOk("int", EmptyDict, << >>, i + 1)
    ELSE IF toks[i] = LBR
      THEN LET j == SkipWs(toks, i + 1)
           IN  IF j <= Len(toks) /\ toks[j] = RBR
                 THEN ParseOk("list", EmptyDict, << >>, j + 1)
                 ELSE ParseElems(toks, j, << >>)
    ELSE ParseFail
\* The elements of a list from position i, where an element must start.
ParseElems(toks, i, acc) ==
    LET v == ParseValue(toks, i)
    IN  IF ~v.ok THEN ParseFail
        ELSE LET j == SkipWs(toks, v.next)
                 got == Append(acc, Val(v.ty, v.d))
             IN  IF j > Len(toks) THEN ParseFail
                 ELSE IF toks[j] = RBR THEN ParseOk("list", EmptyDict, got, j + 1)
                 ELSE IF toks[j] = COMMA
                   THEN ParseElems(toks, SkipWs(toks, j + 1), got)
                 ELSE ParseFail

\* json.load(f) and json.loads(line): one value, whitespace around it and
\* nothing else; ok is false where the decoder raises JSONDecodeError.
Loads(toks) ==
    LET v == ParseValue(toks, SkipWs(toks, 1))
    IN  IF v.ok /\ SkipWs(toks, v.next) > Len(toks) THEN v ELSE ParseFail

\* bytes.strip(): the line without its leading and trailing whitespace.
RECURSIVE RStrip(_)
RStrip(toks) ==
    IF toks # << >> /\ IsWs(toks[Len(toks)])
      THEN RStrip(SubSeq(toks, 1, Len(toks) - 1)) ELSE toks
Strip(toks) == RStrip(SubSeq(toks, SkipWs(toks, 1), Len(toks)))

\* The position of the line feed ending the line that starts at i (Len + 1
\* when the last line has none).
RECURSIVE LineEnd(_, _)
LineEnd(toks, i) ==
    IF i > Len(toks) \/ toks[i] = LF THEN i ELSE LineEnd(toks, i + 1)

\* --------------------------------------------------------------- iter_items
\* The generator's state: where it is in the code (mode), its position in
\* the file (cur, a token index; for mode "list" an index into data) and the
\* list json.load returned (data).
Gen(mode, cur, data) == [mode |-> mode, cur |-> cur, data |-> data]
GenStart == Gen("start", 1, << >>)
GenDone == Gen("done", 0, << >>)

\* What one next() of the generator gives: ev is "item" (with the dict d),
\* "stop" (StopIteration) or "raise" (with the exception exc).
Yield(d, g) == [ev |-> "item", d |-> d, exc |-> NoExc, g |-> g]
Stop == [ev |-> "stop", d |-> EmptyDict, exc |-> NoExc, g |-> GenDone]
Throw(e) == [ev |-> "raise", d |-> EmptyDict, exc |-> e, g |-> GenDone]

\* if not isinstance(obj, dict): raise ValueError; yield obj
Checked(v, g) ==
    IF v.ty # "dict" THEN Throw(ValueError_NotDict) ELSE Yield(v.d, g)

\* The peek loop: the first token that is not whitespace is "[".
FirstIsBracket(file) ==
    LET j == SkipWs(file, 1) IN j <= Len(file) /\ file[j] = LBR

\* if not line: continue
\* (A slip: blank lines not skipped.)
IsBlankMutNever(line) == FALSE
IsBlank(line) == line = << >>

\* for obj in data (the list json.load returned).
NextOfList(g) ==
    IF g.cur > Len(g.data) THEN Stop
    ELSE Checked(g.data[g.cur], Gen("list", g.cur + 1, g.data))

\* The array is closed at position p - 1: only whitespace may follow.
EndOfArray(file, p) ==
    IF SkipWs(file, p) > Len(file) THEN Stop ELSE Throw(JSONDecodeError)

\* for obj in ijson.items(f, "item"): the streaming parser reads on from cur
\* to the end of the next element of the top-level array.
NextOfIjson(file, g) ==
    LET j == SkipWs(file, g.cur)
        elem(i) == LET v == ParseValue(file, i)
                   IN  IF ~v.ok THEN Throw(JSONDecodeError)
                       ELSE Checked(Val(v.ty, v.d), Gen("ijson", v.next, << >>))
    IN  IF j > Len(file) THEN Throw(JSONDecodeError)
        ELSE IF file[j] = RBR
          THEN EndOfArray(file, j + 1)
        ELSE IF g.mode = "ijson0" THEN elem(j)
        ELSE IF file[j] = COMMA THEN elem(SkipWs(file, j + 1))
        ELSE Throw(JSONDecodeError)

\* for line in f: the JSONL fallback, from the line that starts at cur.
RECURSIVE NextOfLines(_, _)
NextOfLines(file, cur) ==
    IF cur > Len(file) THEN Stop
    ELSE LET e == LineEnd(file, cur)
             line == Strip(SubSeq(file, cur, IF e > Len(file) THEN Len(file) ELSE e))
         IN  IF IsBlank(line) THEN NextOfLines(file, e + 1)
             ELSE LET v == Loads(line)
                  IN  IF ~v.ok THEN Throw(JSONDecodeError)
                      ELSE Checked(Val(v.ty, v.d), Gen("lines", e + 1, << >>))

\* The generator's code up to its first loop: the peek, then json.load when
\* the file is an array and ijson is not installed.
Begin(file, ijson) ==
    IF FirstIsBracket(file)
      THEN IF ~ijson
             THEN LET data == Loads(file)
                  IN  IF ~data.ok THEN Throw(JSONDecodeError)
                      ELSE NextOfList(Gen("list", 1, data.elems))
             ELSE NextOfIjson(file, Gen("ijson0", SkipWs(file, 1) + 1, << >>))
      ELSE NextOfLines(file, 1)

\* One next() of iter_items(path).
GenNext(file, ijson, g) ==
    CASE g.mode = "start" -> Begin(file, ijson)
      [] g.mode = "list" -> NextOfList(g)
      [] g.mode \in {"ijson0", "ijson"} -> NextOfIjson(file, g)
      [] g.mode = "lines" -> NextOfLines(file, g.cur)
      [] OTHER -> Stop

\* A streaming parser that reads the file in chunks may report a syntax
\* error of the chunk before it hands out the elements that precede the
\* error: which it does depends on the ijson backend installed.
MayRaiseEarly(file, ijson, g) ==
    /\ ijson
    /\ g.mode \in {"start", "ijson0", "ijson"}
    /\ FirstIsBracket(file)
    /\ ~Loads(file).ok

\* ------------------------------------------------------------ input files
\* The items an input file is written from: objects, a number, broken text.
Rec(q, a) == Obj([key \in {InputKey, OutputKey} |-> IF key = InputKey THEN q ELSE a])
RecA == Rec(PyStr("q1"), PyStr("a1"))
RecB == Rec(PyStr(""), PyStr("a2"))
RecNoResponse == Obj([key \in {InputKey} |-> PyInt("7")])
RecNumQuestion == Rec(PyInt("7"), PyStr("a1"))
ValidRecs == {RecA, RecB}
ItemKinds == ValidRecs \cup {RecNoResponse, RecNumQuestion, NUM, BAD}

SeqsUpTo(S, n) == UNION {[1..m -> S] : m \in 0..n}

\* items joined by sep.
RECURSIVE Join(_, _)
Join(items, sep) ==
    IF Len(items) = 0 THEN << >>
    ELSE IF Len(items) = 1 THEN << items[1] >>
    ELSE << items[1] >> \o sep \o Join(Tail(items), sep)

\* The file as a JSON array: [a, b]\n, or spread over lines with leading
\* whitespace when pretty.
RenderArray(items, pretty) ==
    IF pretty
      THEN << LF, SP, LBR, LF >> \o Join(items, << SP, COMMA, LF, SP >>) \o << LF, RBR >>
      ELSE << LBR >> \o Join(items, << COMMA, SP >>) \o << RBR, LF >>

\* n blank lines: empty ones and whitespace-only ones in turn.
RECURSIVE BlankLines(_)
BlankLines(n) ==
    IF n = 0 THEN << >>
    ELSE BlankLines(n - 1) \o (IF n % 2 = 1 THEN << LF >> ELSE << SP, LF >>)

\* The file as line-delimited JSON, one item a line, with blanks[g] blank
\* lines before the g-th item (and blanks[Len + 1] after the last one).
RECURSIVE RenderLinesFrom(_, _, _)
RenderLinesFrom(items, blanks, g) ==
    IF g > Len(items) THEN BlankLines(blanks[g])
    ELSE BlankLines(blanks[g]) \o << items[g], LF >>
         \o RenderLinesFrom(items, blanks, g + 1)
RenderLines(items, blanks) == RenderLinesFrom(items, blanks, 1)

\* The layouts of the writer's runs.
Layouts == {"array", "lines"}
Render(items, layout) ==
    IF layout = "array" THEN RenderArray(items, FALSE)
    ELSE RenderLines(items, [g \in 1..(Len(items) + 1) |-> g % (MaxBlank + 1)])

\* ------------------------------------------------------------------- state
VARIABLES
    \* the inputs of a run
    file,           \* the input file's tokens
    ijson,          \* whether "import ijson" succeeds
    out_format, system_prompt, batch_size,
    logical,        \* the items the input file was written from
    \* write_parquet
    gen,            \* the state of iter_items(input_path)
    buf,            \* the rows not flushed yet
    total,          \* the rows flushed
    writer,         \* "None", "open" or "closed"
    tables,         \* the tables write_table has appended to the output file
    closes,         \* how often writer.close() ran
    consumed,       \* how many items the loop has appended to buf
    pc,             \* "loop", "finally", "returned" or "raised"
    exc,            \* the exception in flight
    ret,            \* the value returned (-1: none)
    \* the reader comparison: a second file and its generator
    file2, gen2, yielded, yielded2,
    \* the last call of make_row: the item it was given and what it gave
    item, result

vars == << file, ijson, out_format, system_prompt, batch_size, logical, gen,
           buf, total, writer, tables, closes, consumed, pc, exc, ret, file2,
           gen2, yielded, yielded2, item, result >>

inputVars == << file, ijson, out_format, system_prompt, batch_size, logical >>
readerVars == << file2, gen2, yielded, yielded2 >>
rowVars == << item, result >>

Formats == {"single_turn", "messages", "chat"}
BatchSizes == (-1)..MaxBatch

\* The variables a specification does not use keep these values.
ReaderIdle ==
    /\ file2 = << >> /\ gen2 = GenDone /\ yielded = << >> /\ yielded2 = << >>
RowIdle == item = EmptyDict /\ result = Raise(NoExc)
\* ----------------------------------------------------------- write_parquet
\* The schema chosen before the loop: any format but single_turn gets the
\* messages schema.
Schema(fmt) == IF fmt = "single_turn" THEN "question,answer" ELSE "messages"

\* pa.Table.from_pylist(buf, schema=schema)
Table(rows, schema) == [schema |-> schema, rows |-> rows]

\* The state flush() works on.
FlushState(w, b, t, tb, e) ==
    [writer |-> w, buf |-> b, total |-> t, tables |-> tb, exc |-> e]

\* flush(), every call succeeding.
\* (Slips: the buffer not emptied; the file opened for an empty buffer.)
FlushMutKeepBuf(st, schema) ==
    IF st.buf = << >> THEN st
    ELSE FlushState("open", st.buf, st.total + Len(st.buf),
                    Append(st.tables, Table(st.buf, schema)), NoExc)
FlushMutOpenEmpty(st, schema) ==
    FlushState("open", << >>, st.total + Len(st.buf),
               IF st.buf = << >> THEN st.tables
               ELSE Append(st.tables, Table(st.buf, schema)), NoExc)
Flush(st, schema) ==
    IF st.buf = << >> THEN st
    ELSE FlushState("open", << >>, st.total + Len(st.buf),
                    Append(st.tables, Table(st.buf, schema)), NoExc)

\* flush() raising: in from_pylist, in the ParquetWriter constructor (only
\* the first flush opens the file) or in write_table.
FlushStages == {"encode", "open", "write"}
FlushRaises(st, stage) ==
    CASE stage = "encode" -> [st EXCEPT !.exc = EncodeError]
      [] stage = "open" -> [st EXCEPT !.exc = OpenError]
      [] OTHER -> [st EXCEPT !.writer = "open", !.exc = WriteError]
CanRaise(st, stage) ==
    /\ st.buf # << >>
    /\ stage = "open" => st.writer = "None"

\* if len(buf) >= batch_size
\* (A slip: > for >=.)
BatchFullMutGreater(b, size) == Len(b) > size
BatchFull(b, size) == Len(b) >= size

\* finally: if writer is not None: writer.close()
\* (Slips: the writer never closed; close() called on None.)
MustCloseMutNever(w) == FALSE
MustCloseMutAlways(w) == TRUE
MustClose(w) == w # "None"

Cur == FlushState(writer, buf, total, tables, exc)
SetFlushed(st) ==
    /\ writer' = st.writer
    /\ buf' = st.buf
    /\ total' = st.total
    /\ tables' = st.tables
    /\ exc' = st.exc

\* One pass of the loop body: the next item is mapped and appended, and the
\* batch is flushed when it is full.
Iterate ==
    /\ pc = "loop"
    /\ LET r == GenNext(file, ijson, gen)
           m == make_row(r.d, out_format, system_prompt)
           st == [Cur EXCEPT !.buf = Append(buf, m.row)]
       IN  /\ r.ev = "item"
           /\ m.exc = NoExc
           /\ gen' = r.g
           /\ item' = r.d
           /\ result' = m
           /\ consumed' = consumed + 1
           /\ SetFlushed(IF BatchFull(st.buf, batch_size)
                           THEN Flush(st, Schema(out_format)) ELSE st)
    /\ UNCHANGED << pc, closes, ret, inputVars, readerVars >>

\* The same pass with the flush of the full batch raising.
IterateFlushRaises ==
    /\ pc = "loop"
    /\ LET r == GenNext(file, ijson, gen)
           m == make_row(r.d, out_format, system_prompt)
           st == [Cur EXCEPT !.buf = Append(buf, m.row)]
       IN  /\ r.ev = "item"
           /\ m.exc = NoExc
           /\ BatchFull(st.buf, batch_size)
           /\ \E stage \in FlushStages :
                /\ CanRaise(st, stage)
                /\ SetFlushed(FlushRaises(st, stage))
           /\ gen' = r.g
           /\ item' = r.d
           /\ result' = m
           /\ consumed' = consumed + 1
    /\ pc' = "finally"
    /\ UNCHANGED << closes, ret, inputVars, readerVars >>

\* iter_items raises: an item that is no dict, or text that does not decode.
ReaderRaises ==
    /\ pc = "loop"
    /\ \/ LET r == GenNext(file, ijson, gen)
          IN  r.ev = "raise" /\ exc' = r.exc
       \/ MayRaiseEarly(file, ijson, gen) /\ exc' = JSONDecodeError
    /\ gen' = GenDone
    /\ pc' = "finally"
    /\ UNCHANGED << buf, total, writer, tables, closes, consumed, ret,
                    inputVars, readerVars, rowVars >>

\* make_row raises.
MapperRaises ==
    /\ pc = "loop"
    /\ LET r == GenNext(file, ijson, gen)
           m == make_row(r.d, out_format, system_prompt)
       IN  /\ r.ev = "item"
           /\ m.exc # NoExc
           /\ exc' = m.exc
           /\ gen' = r.g
           /\ item' = r.d
           /\ result' = m
    /\ pc' = "finally"
    /\ UNCHANGED << buf, total, writer, tables, closes, consumed, ret,
                    inputVars, readerVars >>

\* The input is exhausted: the last flush().
Exhausted ==
    /\ pc = "loop"
    /\ GenNext(file, ijson, gen).ev = "stop"
    /\ gen' = GenDone
    /\ SetFlushed(Flush(Cur, Schema(out_format)))
    /\ pc' = "finally"
    /\ UNCHANGED << closes, consumed, ret, inputVars, readerVars, rowVars >>

\* The last flush() raising.
ExhaustedFlushRaises ==
    /\ pc = "loop"
    /\ GenNext(file, ijson, gen).ev = "stop"
    /\ gen' = GenDone
    /\ \E stage \in FlushStages :
         /\ CanRaise(Cur, stage)
         /\ SetFlushed(FlushRaises(Cur, stage))
    /\ pc' = "finally"
    /\ UNCHANGED << closes, consumed, ret, inputVars, readerVars, rowVars >>

\* The finally block, then "return total" or the exception going on up.
Finally ==
    /\ pc = "finally"
    /\ writer' = IF MustClose(writer) THEN "closed" ELSE writer
    /\ closes' = IF MustClose(writer) THEN closes + 1 ELSE closes
    /\ pc' = IF exc = NoExc THEN "returned" ELSE "raised"
    /\ ret' = IF exc = NoExc THEN total ELSE ret
    /\ UNCHANGED << gen, buf, total, tables, consumed, exc, inputVars,
                    readerVars, rowVars >>

Init ==
    /\ logical \in SeqsUpTo(ItemKinds, MaxItems)
    /\ \E layout \in Layouts : file = Render(logical, layout)
    /\ ijson \in BOOLEAN
    /\ ~FirstIsBracket(file) => ~ijson
    /\ out_format \in Formats
    /\ system_prompt \in {PyNone, PyStr("sys")}
    /\ out_format # "messages" => system_prompt = PyNone
    /\ batch_size \in BatchSizes
    /\ gen = GenStart /\ buf = << >> /\ total = 0 /\ writer = "None"
    /\ tables = << >> /\ closes = 0 /\ consumed = 0 /\ pc = "loop"
    /\ exc = NoExc /\ ret = -1
    /\ ReaderIdle /\ RowIdle

Next ==
    \/ Iterate
    \/ IterateFlushRaises
    \/ ReaderRaises
    \/ MapperRaises
    \/ Exhausted
    \/ ExhaustedFlushRaises
    \/ Finally

Spec == Init /\ [][Next]_vars

\* ------------------------------------------------- make_row on its own
\* The values a designated field is given, and the records built of them.
FieldValues == {PyNone, PyStr(""), PyStr("x"), PyStr("y"), PyInt("7")}
Records == UNION {[keys -> FieldValues] : keys \in SUBSET {InputKey, OutputKey}}
SystemPrompts == {PyNone, PyStr(""), PyStr("sys")}

\* make_row(item, ...) is called; its row or its exception is the result.
MakeRow ==
    /\ pc = "call"
    /\ result' = make_row(item, out_format, system_prompt)
    /\ pc' = "called"
    /\ UNCHANGED << item, file, ijson, out_format, system_prompt, batch_size,
                    logical, gen, buf, total, writer, tables, closes,
                    consumed, exc, ret, readerVars >>

InitRow ==
    /\ item \in Records
    /\ out_format \in Formats
    /\ system_prompt \in SystemPrompts
    /\ result = Raise(NoExc)
    /\ file = << >> /\ ijson = FALSE /\ batch_size = 0 /\ logical = << >>
    /\ gen = GenDone /\ buf = << >> /\ total = 0 /\ writer = "None"
    /\ tables = << >> /\ closes = 0 /\ consumed = 0 /\ pc = "call"
    /\ exc = NoExc /\ ret = -1
    /\ ReaderIdle

NextRow == MakeRow

SpecRow == InitRow /\ [][NextRow]_vars

\* ------------------------------------------- iter_items on two files
\* The same records written as a JSON array (file) and as line-delimited
\* JSON with blank lines (file2), each read by a generator of its own, one
\* file after the other.
ReaderRecs == ValidRecs

\* One next() on the generator of the array file.
ReadArray ==
    /\ pc = "read"
    /\ gen # GenDone
    /\ LET r == GenNext(file, ijson, gen)
       IN  /\ gen' = r.g
           /\ exc' = IF r.ev = "raise" THEN r.exc ELSE exc
           /\ yielded' = IF r.ev = "item" THEN Append(yielded, r.d) ELSE yielded
    /\ UNCHANGED << gen2, yielded2, file2, buf, total, writer, tables, closes,
                    consumed, pc, ret, inputVars, rowVars >>

\* One next() on the generator of the line-delimited file, which is read
\* once the array file has been.
ReadLines ==
    /\ pc = "read"
    /\ gen = GenDone
    /\ gen2 # GenDone
    /\ LET r == GenNext(file2, ijson, gen2)
       IN  /\ gen2' = r.g
           /\ exc' = IF r.ev = "raise" THEN r.exc ELSE exc
           /\ yielded2' = IF r.ev = "item" THEN Append(yielded2, r.d) ELSE yielded2
    /\ UNCHANGED << gen, yielded, file2, buf, total, writer, tables, closes,
                    consumed, pc, ret, inputVars, rowVars >>

InitReader ==
    /\ logical \in SeqsUpTo(ReaderRecs, MaxRecs)
    /\ \E pretty \in BOOLEAN : file = RenderArray(logical, pretty)
    /\ \E blanks \in [1..(Len(logical) + 1) -> 0..MaxBlank] :
         file2 = RenderLines(logical, blanks)
    /\ ijson \in BOOLEAN
    /\ gen = GenStart /\ gen2 = GenStart
    /\ yielded = << >> /\ yielded2 = << >>
    /\ out_format = "single_turn" /\ system_prompt = PyNone /\ batch_size = 0
    /\ buf = << >> /\ total = 0 /\ writer = "None" /\ tables = << >>
    /\ closes = 0 /\ consumed = 0 /\ pc = "read" /\ exc = NoExc /\ ret = -1
    /\ RowIdle

NextReader == ReadArray \/ ReadLines

SpecReader == InitReader /\ [][NextReader]_vars

\* ------------------------------------------------------------- properties
Supported == {"single_turn", "messages"}
IOErrors == {EncodeError, OpenError, WriteError}
Ended == pc \in {"returned", "raised"}

\* What the claims say of a record, read off the record itself.
AbsentOrNull(d, key) == key \notin DOMAIN d \/ d[key].ty = "NoneType"
BothStrings(d) ==
    \A key \in {InputKey, OutputKey} : key \in DOMAIN d /\ d[key].ty = "str"
IsValidRec(t) == t.k = "obj" /\ BothStrings(t.d)
AllValid(items) == \A i \in 1..Len(items) : IsValidRec(items[i])

\* The rows of the output file, table after table.
RECURSIVE Rows(_)
Rows(tbls) == IF tbls = << >> THEN << >> ELSE tbls[1].rows \o Rows(Tail(tbls))

\* make_row of each of the first m items.
Mapped(items, m) ==
    [i \in 1..m |-> make_row(items[i].d, out_format, system_prompt).row]

\* The 0-based position of the first item that is no valid record (the
\* length when there is none).
RECURSIVE FirstBad(_)
FirstBad(items) ==
    IF items = << >> \/ ~IsValidRec(items[1]) THEN 0 ELSE 1 + FirstBad(Tail(items))

\* The error the claims expect of an item that is no valid record.
ExpectedExc(t) ==
    CASE t.k = "num" -> ValueError_NotDict
      [] t.k = "bad" -> JSONDecodeError
      [] t.k = "obj" /\ (AbsentOrNull(t.d, InputKey) \/ AbsentOrNull(t.d, OutputKey))
           -> KeyError_Missing
      [] OTHER -> TypeError_Strings

\* C1: a run over N valid records that completes has written exactly the N
\* mapped rows, in input order, and returns N, whatever batch_size is.
C1_RoundTrip ==
    (pc = "returned" /\ out_format \in Supported /\ AllValid(logical))
    => /\ Rows(tables) = Mapped(logical, Len(logical))
       /\ ret = Len(logical)
       /\ buf = << >>
C1_Witness ==
    /\ pc = "returned" /\ out_format = "messages" /\ batch_size = 2
    /\ Len(logical) = 3 /\ logical[1] # logical[2] /\ Len(tables) = 2
    /\ ret = 3 /\ file[1] # LBR

\* C2: every table handed to write_table holds at most batch_size rows, for
\* every integer batch_size.
C2_BatchAtMostBatchSize ==
    \A i \in 1..Len(tables) : Len(tables[i].rows) <= batch_size

\* C3: when write_parquet has returned or raised, on any path, the writer
\* is not open: it was never opened, or it has been closed.
C3_WriterReleased == Ended => writer # "open"
C3_Witness ==
    /\ pc = "raised" /\ exc = KeyError_Missing /\ writer = "closed" /\ total > 0

\* C4 as stated: every run ends with the writer closed, closed exactly once.
C4_ClosedOncePerRun == Ended => (writer = "closed" /\ closes = 1)
\* C4 amended: the writer only moves None -> open -> closed, closed is
\* terminal, close() runs in the finally block right after the last flush or
\* the error, and a run ends with the writer closed exactly once when it was
\* opened and never closed (still None) when it was not.
C4_Lifecycle ==
    [][ /\ writer' # writer
            => << writer, writer' >> \in {<< "None", "open" >>, << "open", "closed" >>}
        /\ closes' = closes + (IF writer = "open" /\ writer' = "closed" THEN 1 ELSE 0)
        /\ (writer' = "closed" /\ writer # "closed") => (pc = "finally" /\ Ended')
        /\ Ended'
            => /\ writer' \in {"None", "closed"}
               /\ closes' = (IF writer' = "closed" THEN 1 ELSE 0)
               /\ (writer' = "closed") <=> (writer = "open") ]_vars
C4_Witness ==
    /\ pc = "returned" /\ writer = "closed" /\ closes = 1 /\ Len(tables) = 2

\* C5: with batch_size B >= 1 and a supported format, when the first item
\* that is no valid record is at 0-based position k of a file that can be
\* read record by record, the run never returns; no row of a record at
\* position >= k is ever written; and when the run has raised (other than
\* for a failed flush) it raised that item's error, with exactly the first
\* B * (k \div B) mapped rows written, the k % B rows after them left in
\* the buffer, and the output never opened when k < B.
C5_FirstBadRecordAborts ==
    LET k == FirstBad(logical)
        B == batch_size
        flushed == B * (k \div B)
    IN  ( /\ B >= 1
          /\ out_format \in Supported
          /\ k < Len(logical)
          /\ FirstIsBracket(file) => Loads(file).ok )
        => /\ pc # "returned"
           /\ Len(Rows(tables)) <= flushed
           /\ Rows(tables) = Mapped(logical, Len(Rows(tables)))
           /\ (pc = "raised" /\ exc \notin IOErrors)
                => /\ exc = ExpectedExc(logical[k + 1])
                   /\ consumed = k
                   /\ Rows(tables) = Mapped(logical, flushed)
                   /\ total = flushed
                   /\ Len(buf) = k % B
                   /\ k < B => (writer = "None" /\ tables = << >>)
C5_Witness ==
    /\ pc = "raised" /\ exc = TypeError_Strings /\ out_format = "single_turn"
    /\ batch_size = 2 /\ FirstBad(logical) = 3
    /\ Len(tables) = 1 /\ Len(buf) = 1 /\ writer = "closed"

\* C6: for a record whose designated fields are the strings q and a, make_row
\* gives {question: q, answer: a} for single_turn whatever the prompt, and for
\* messages [user q, assistant a], headed by [system p] exactly when the
\* prompt p is a non-empty string.
C6_MakeRowShapes ==
    (pc = "called" /\ BothStrings(item))
    => LET q == item[InputKey].s
           a == item[OutputKey].s
           qa == << [role |-> "user", content |-> q],
                    [role |-> "assistant", content |-> a] >>
       IN  /\ out_format = "single_turn"
               => result = [exc |-> NoExc, row |-> [question |-> q, answer |-> a]]
           /\ (out_format = "messages" /\ system_prompt \in {PyNone, PyStr("")})
               => result = [exc |-> NoExc, row |-> [messages |-> qa]]
           /\ (out_format = "messages" /\ system_prompt \notin {PyNone, PyStr("")})
               => result = [exc |-> NoExc, row |->
                    [messages |-> << [role |-> "system", content |-> system_prompt.s] >>
                                  \o qa]]
C6_Witness ==
    /\ pc = "called" /\ out_format = "messages" /\ system_prompt = PyStr("sys")
    /\ BothStrings(item) /\ item[InputKey].s = "" /\ item[OutputKey].s = "y"
    /\ Len(result.row.messages) = 3

\* C7: make_row raises the missing-field error exactly when a designated
\* field is absent or null, and the type error exactly when both are there,
\* neither is null and one is no string.
C7_MissingBeforeType ==
    pc = "called"
    => LET missing == AbsentOrNull(item, InputKey) \/ AbsentOrNull(item, OutputKey)
       IN  /\ (result.exc = KeyError_Missing) <=> missing
           /\ (result.exc = TypeError_Strings) <=> (~missing /\ ~BothStrings(item))
C7_Witness ==
    /\ pc = "called" /\ result.exc = KeyError_Missing
    /\ DOMAIN item = {InputKey} /\ item[InputKey].ty = "int"

\* C8 as stated: with a format that is neither single_turn nor messages,
\* make_row raises the unknown-format error for whatever record it is given,
\* and the run never returns.
C8_AlwaysUnknownFormat ==
    out_format \notin Supported
    => /\ pc # "returned"
       /\ result.exc \in {NoExc, ValueError_Format}
\* C8 amended: with such a format make_row raises for every record: the
\* unknown-format error when both designated fields are strings, else the
\* missing-field or type error of the checks that come first; the run writes
\* no row, never opens the output, and returns (0) only when the input holds
\* no item at all.
C8_UnknownFormat ==
    out_format \notin Supported
    => /\ tables = << >> /\ buf = << >> /\ total = 0 /\ writer = "None"
       /\ consumed = 0
       /\ pc = "returned" => (logical = << >> /\ ret = 0)
       /\ result # Raise(NoExc)
            => /\ result.row = NoRow
               /\ result.exc = (IF BothStrings(item) THEN ValueError_Format
                                ELSE ExpectedExc(Obj(item)))
               /\ pc \in {"finally", "raised"} /\ exc = result.exc
C8_Witness ==
    /\ out_format = "chat" /\ pc = "raised" /\ exc = ValueError_Format
    /\ BothStrings(item) /\ Len(logical) = 2

\* C9: a JSON array file and a line-delimited file with blank and
\* whitespace-only lines, written from the same records, make iter_items
\* yield the same records: all of them, once each, in input order.
Dicts(items) == [i \in 1..Len(items) |-> items[i].d]
IsPrefix(a, b) == Len(a) <= Len(b) /\ a = SubSeq(b, 1, Len(a))
C9_SameRecords ==
    pc = "read"
    => /\ exc = NoExc
       /\ IsPrefix(yielded, Dicts(logical))
       /\ IsPrefix(yielded2, Dicts(logical))
       /\ gen = GenDone => yielded = Dicts(logical)
       /\ gen2 = GenDone => yielded2 = Dicts(logical)
       /\ (gen = GenDone /\ gen2 = GenDone) => yielded = yielded2
C9_Witness ==
    /\ pc = "read" /\ gen = GenDone /\ gen2 = GenDone
    /\ Len(yielded2) = 3 /\ yielded2[1] # yielded2[2]
    /\ Len(file2) >= Len(logical) * 2 + 5
    /\ file[1] = LF

\* C10 as stated: at every point the writer has been opened exactly when
\* total > 0.
C10_OpenedIffTotal == (writer # "None") <=> (total > 0)
\* C10 amended: the writer is opened only by a flush of a non-empty buffer:
\* total > 0 implies it has been opened, and once opened total > 0 unless
\* the first write_table raised (the file then exists with total still 0);
\* a run over an input without items never opens it and returns 0.
C10_LazyOpen ==
    /\ total > 0 => writer # "None"
    /\ writer # "None" => (total > 0 \/ (exc = WriteError /\ buf # << >>))
    /\ writer # "None" => consumed > 0
    /\ logical = << >> => (writer = "None" /\ (Ended => (pc = "returned" /\ ret = 0)))
C10_Witness ==
    /\ pc = "loop" /\ writer = "open" /\ total = 2 /\ Len(buf) = 1
    /\ batch_size = 2

====
